---- MODULE Spec2Model ----
(***************************************************************************)
(* A model of the client session controller of rust-us                     *)
(* (client/src/js_api.rs): GameWrapper, its set_inputs and simulate        *)
(* handlers, the shareable-link synchronisation and make_game.             *)
(*                                                                         *)
(* Durations and instants are counted in units of 1/UNITS_PER_SEC second,  *)
(* so that Duration::as_secs (a truncation) is not the identity.           *)
(* PlaybackServer, GameAsPlayer and the network listener live in other     *)
(* crates of the repository; they are modelled from their documented       *)
(* contracts (the ps_*, game_* and listener definitions).                  *)
(***************************************************************************)
EXTENDS Integers, Sequences, FiniteSets, TLC

\* ---------------------------------------------------------------- bounds
\* The wall clock runs from 0 to MaxNow units.
MaxNow == 2
\* The recorded timelines are MaxDuration units long.
MaxDuration == 12

\* ------------------------------------------------------------- constants
\* Resolution of a Duration below one second (Duration::as_secs drops it).
UNITS_PER_SEC == 2
\* Duration::from_secs(5): the seek step of set_inputs.
SKIP_SECS == 5

SkipStep == SKIP_SECS * UNITS_PER_SEC

\* ------------------------------------------------------------ data types
None == [some |-> FALSE]
Some(x) == [some |-> TRUE, v |-> x]

\* InputState: `up` stands for the continuous signals (up, down, left,
\* right, kill, report, activate, play); the three playback signals are kept.
InputState(up, skip_back, skip_forward, pause_playback) ==
  [up |-> up, skip_back |-> skip_back, skip_forward |-> skip_forward,
   pause_playback |-> pause_playback]

NoInput == InputState(FALSE, FALSE, FALSE, FALSE)

\* The snapshots the input-event source delivers.
Inputs ==
  { InputState(u, b, f, p) : u \in {FALSE}, b \in BOOLEAN, f \in BOOLEAN, p \in BOOLEAN }
    \cup { InputState(TRUE, FALSE, FALSE, FALSE) }

\* GameStatus and GameStatus::finished.
GameStatus == {"Connecting", "Lobby", "Playing", "Finished"}
finished(status) == status = "Finished"

\* A recorded timeline: its duration, and the last offset re-simulation can
\* reach (readable < duration: a corrupt or truncated recording).
Recordings ==
  { [duration |-> MaxDuration, readable |-> MaxDuration],
    [duration |-> MaxDuration, readable |-> MaxDuration - 1] }

\* The text of the link's `time` parameter: whole seconds and a fraction.
TimeText(whole, frac) == [whole |-> whole, frac |-> frac]

\* The links a session can be opened from.
StartLinks ==
  { [recording |-> FALSE, time |-> None] }
    \cup { [recording |-> TRUE, time |-> t] :
             t \in { None, Some(TimeText(1, 1)), Some(TimeText(MaxDuration, 0)) } }

Sources == {"set_inputs", "simulate", "listener"}

VARIABLES
  phase,                \* "new" before make_game, then "running" or "failed"
  game,                 \* the cell Arc<Mutex<Option<GameAsPlayer>>>
  playback_server,      \* Option<PlaybackServer>
  previous_frame_time,  \* Instant
  now,                  \* the wall clock, Instant::now()
  href,                 \* window.location: the shareable link
  storage,              \* localStorage: the "latest game" slot
  lock,                 \* the Mutex: "free" or the source holding the guard
  pc,                   \* per call source: "idle" or "in" (inside the call)
  delivered,            \* the snapshot the last set_inputs call was given
  resumed_at,           \* the instant playback was last resumed
  pause_taps,           \* progress of a press, release, press of pause_playback
  last                  \* what the last completed call did

vars == <<phase, game, playback_server, previous_frame_time, now, href, storage,
          lock, pc, delivered, resumed_at, pause_taps, last>>

\* ------------------------------------------------- PlaybackServer (core)
Clamp(t, duration) == IF t < 0 THEN 0 ELSE IF t > duration THEN duration ELSE t

\* The game status the timeline holds at an offset.
StatusAt(rec, t) ==
  IF t >= rec.duration THEN "Finished" ELSE IF t = 0 THEN "Lobby" ELSE "Playing"

ps_new(rec) == [rec |-> rec, time |-> 0, is_paused |-> FALSE]
current_time(ps) == ps.time
duration(ps) == ps.rec.duration
paused(ps) == ps.is_paused
toggle_pause(ps) == [ps EXCEPT !.is_paused = ~ps.is_paused]

skip_to_unclamped(ps, target, g) ==
  [ok |-> TRUE, ps |-> [ps EXCEPT !.time = target],
   game |-> [g EXCEPT !.status = StatusAt(ps.rec, target)]]

\* skip_to(target, game): clamps the target into [0, duration] and re-derives
\* the game at it; a PlaybackError leaves server and game as they were.
skip_to(ps, target, g) ==
  LET t == Clamp(target, duration(ps)) IN
  IF t > ps.rec.readable
    THEN [ok |-> FALSE, ps |-> ps, game |-> g]
    ELSE [ok |-> TRUE, ps |-> [ps EXCEPT !.time = t],
          game |-> [g EXCEPT !.status = StatusAt(ps.rec, t)]]

\* simulate(elapsed, game, is_scrub): a no-op while paused, else advances the
\* cursor by elapsed, not beyond duration.
ps_simulate(ps, elapsed, g) ==
  IF paused(ps) THEN [ok |-> TRUE, ps |-> ps, game |-> g]
  ELSE LET t == Clamp(ps.time + elapsed, duration(ps)) IN
       IF t > ps.rec.readable
         THEN [ok |-> FALSE, ps |-> ps, game |-> g]
         ELSE [ok |-> TRUE, ps |-> [ps EXCEPT !.time = t],
               game |-> [g EXCEPT !.status = StatusAt(ps.rec, t)]]

\* --------------------------------------------------- GameAsPlayer (core)
game_new == [status |-> "Connecting", inputs |-> NoInput, frames |-> 0]
inputs(g) == g.inputs

\* take_input: stores the snapshot; rejected while not yet joined.
take_input(g, input) ==
  IF g.status = "Connecting" THEN [ok |-> FALSE, game |-> g]
  ELSE [ok |-> TRUE, game |-> [g EXCEPT !.inputs = input]]

\* GameAsPlayer::simulate: progresses only a game that is being played.
game_simulate(g, elapsed) ==
  IF g.status = "Playing"
    THEN [advanced |-> TRUE, game |-> [g EXCEPT !.frames = (g.frames + 1) % 2]]
    ELSE [advanced |-> FALSE, game |-> g]

\* --------------------------------------------------- the shareable link
\* Duration::as_secs: whole seconds, the fraction dropped.
as_secs(d) == d \div UNITS_PER_SEC

\* str::parse::<f64> then Duration::from_secs_f64.
from_secs_f64(text) == text.whole * UNITS_PER_SEC + text.frac

\* GameWrapper::read_time_offset_from_url
read_time_offset_from_url(link) ==
  IF ~link.time.some THEN None ELSE Some(from_secs_f64(link.time.v))

\* What a link-synchronisation call can meet: no failure, window / location /
\* Url::new failing, or history.replaceState failing.
LinkFailures == {"none", "window", "history"}

\* GameWrapper::write_time_offset_into_url: `thrown` is an unwrap_throw firing.
write_time_offset_into_url(ps_opt, link, fail) ==
  IF ~ps_opt.some THEN [thrown |-> FALSE, href |-> link]
  ELSE IF fail = "window" THEN [thrown |-> TRUE, href |-> link]
  ELSE LET new_href == [recording |-> TRUE,
                        time |-> Some(TimeText(as_secs(current_time(ps_opt.v)), 0))]
       IN IF link # new_href
            THEN IF fail = "history" THEN [thrown |-> TRUE, href |-> link]
                 ELSE [thrown |-> FALSE, href |-> new_href]
            ELSE [thrown |-> FALSE, href |-> link]

\* ---------------------------------------------------------- set_inputs
SeekBackTarget_or_time(time) == IF time >= SkipStep THEN time - SkipStep ELSE time

\* time.checked_sub(5s).unwrap_or_else(0)
SeekBackTarget(time) == IF time >= SkipStep THEN time - SkipStep ELSE 0

SeekForwardTarget_backwards(time, ps) == time - SkipStep

\* time.checked_add(5s).unwrap_or_else(duration): the sum never overflows a
\* Duration within the model's bounds.
SeekForwardTarget(time, ps) == time + SkipStep

resume_baseline_kept(p, pft, t_now) == pft

\* if !playback_server.paused() { self.previous_frame_time = Instant::now() }
resume_baseline(p, pft, t_now) == IF ~paused(p) THEN t_now ELSE pft

pause_edge_on_change(input, prev_input) ==
  input.pause_playback # prev_input.pause_playback

\* if input.pause_playback && !prev_input.pause_playback
pause_edge(input, prev_input) == input.pause_playback /\ ~prev_input.pause_playback

\* The playback branch of set_inputs: at most one command.
playback_command(ps, g, pft, t_now, input, prev_input) ==
  IF input.skip_back /\ ~prev_input.skip_back THEN
    LET r == skip_to(ps, SeekBackTarget(current_time(ps)), g) IN
    [ok |-> r.ok, ps |-> r.ps, game |-> r.game, pft |-> pft, cmd |-> "skip_back"]
  ELSE IF input.skip_forward /\ ~prev_input.skip_forward THEN
    LET r == skip_to(ps, SeekForwardTarget(current_time(ps), ps), g) IN
    [ok |-> r.ok, ps |-> r.ps, game |-> r.game, pft |-> pft, cmd |-> "skip_forward"]
  ELSE IF pause_edge(input, prev_input) THEN
    LET p == toggle_pause(ps) IN
    [ok |-> TRUE, ps |-> p, game |-> g,
     pft |-> resume_baseline(p, pft, t_now), cmd |-> "toggle_pause"]
  ELSE [ok |-> TRUE, ps |-> ps, game |-> g, pft |-> pft, cmd |-> "none"]

game_over_never(g) == FALSE

\* if game.state.status.finished() { return Ok(()) }
game_over(g) == finished(g.status)

\* GameWrapper::set_inputs, between taking the lock and dropping the guard.
set_inputs(g_opt, ps_opt, pft, t_now, input) ==
  IF ~g_opt.some THEN
    [game |-> g_opt, ps |-> ps_opt, pft |-> pft, ret |-> "Ok", cmd |-> "none",
     calls |-> <<>>]
  ELSE
    LET g == g_opt.v
        prev_input == inputs(g)
        c == IF ps_opt.some
               THEN playback_command(ps_opt.v, g, pft, t_now, input, prev_input)
               ELSE [ok |-> TRUE, ps |-> None, game |-> g, pft |-> pft, cmd |-> "none"]
        ps2 == IF ps_opt.some THEN Some(c.ps) ELSE None
        seek == IF c.cmd \in {"skip_back", "skip_forward"} THEN <<"skip_to">>
                ELSE IF c.cmd = "toggle_pause" THEN <<"toggle_pause">> ELSE <<>>
    IN IF ~c.ok THEN
         [game |-> Some(c.game), ps |-> ps2, pft |-> c.pft, ret |-> "Err",
          cmd |-> c.cmd, calls |-> seek]
       ELSE IF game_over(c.game) THEN
         [game |-> Some(c.game), ps |-> ps2, pft |-> c.pft, ret |-> "Ok",
          cmd |-> c.cmd, calls |-> seek]
       ELSE
         LET t == take_input(c.game, input) IN
         [game |-> Some(t.game), ps |-> ps2, pft |-> c.pft,
          ret |-> IF t.ok THEN "Ok" ELSE "Err",
          cmd |-> c.cmd, calls |-> seek \o <<"take_input">>]

\* ------------------------------------------------------------ simulate
frame_is_paused_never(ps_opt) == FALSE

\* if playback_server.paused() { return Ok(true) }
frame_is_paused(ps_opt) == ps_opt.some /\ paused(ps_opt.v)

still_connecting_never(g) == FALSE

\* if game.state.status == GameStatus::Connecting { return Ok(false) }
still_connecting(g) == g.status = "Connecting"

paused_frame_result_false == "Ok(false)"

\* return Ok(true): the paused frame skips simulation and drawing.
paused_frame_result == "Ok(true)"

playback_error_ignored(s) == FALSE

\* playback_server.simulate(..).map_err(..)?
playback_failed(s) == ~s.ok

\* GameWrapper::simulate, between taking the lock and leaving the call.
\* ret "Throw": a JS exception left the call; no destructor ran, so the
\* MutexGuard was not dropped (held = TRUE).
simulate(g_opt, ps_opt, pft, t_now, link, fail) ==
  IF ~g_opt.some THEN
    [game |-> g_opt, ps |-> ps_opt, pft |-> pft, href |-> link, ret |-> "Ok(false)",
     calls |-> <<>>, elapsed |-> 0, held |-> FALSE]
  ELSE
    LET g == g_opt.v
        elapsed == t_now - pft
    IN
    IF frame_is_paused(ps_opt) THEN
      [game |-> g_opt, ps |-> ps_opt, pft |-> t_now, href |-> link,
       ret |-> paused_frame_result, calls |-> <<>>, elapsed |-> elapsed,
       held |-> FALSE]
    ELSE
      LET s == IF ps_opt.some THEN ps_simulate(ps_opt.v, elapsed, g)
               ELSE [ok |-> TRUE, ps |-> None, game |-> g]
          ps2 == IF ps_opt.some THEN Some(s.ps) ELSE None
          w == write_time_offset_into_url(ps2, link, fail)
          c1 == IF ~ps_opt.some THEN <<>>
                ELSE IF s.ok THEN <<"playback.simulate">> ELSE <<"playback.simulate:Err">>
          c2 == IF ps_opt.some THEN c1 \o <<"write_url">> ELSE c1
      IN
      IF playback_failed(s) THEN
        [game |-> Some(s.game), ps |-> ps2, pft |-> t_now, href |-> link, ret |-> "Err",
         calls |-> c1, elapsed |-> elapsed, held |-> FALSE]
      ELSE IF w.thrown THEN
        [game |-> Some(s.game), ps |-> ps2, pft |-> t_now, href |-> w.href,
         ret |-> "Throw", calls |-> c2, elapsed |-> elapsed, held |-> TRUE]
      ELSE IF still_connecting(s.game) THEN
        [game |-> Some(s.game), ps |-> ps2, pft |-> t_now, href |-> w.href,
         ret |-> "Ok(false)", calls |-> c2, elapsed |-> elapsed, held |-> FALSE]
      ELSE
        LET r == game_simulate(s.game, elapsed) IN
        [game |-> Some(r.game), ps |-> ps2, pft |-> t_now, href |-> w.href,
         ret |-> IF r.advanced THEN "Ok(true)" ELSE "Ok(false)",
         calls |-> c2 \o <<"game.simulate">>, elapsed |-> elapsed, held |-> FALSE]

\* ------------------------------------------------------------ make_game
\* The persisted "latest game" slot: empty, not decodable, an envelope of
\* another kind, or a Replay.
Slots ==
  { [kind |-> "empty"], [kind |-> "malformed"], [kind |-> "Welcome"] }
    \cup { [kind |-> "Replay", rec |-> r] : r \in Recordings }

get_recorded_game_any_kind(slot) ==
  IF slot.kind = "empty" THEN [ok |-> TRUE, recording |-> None, err |-> <<>>]
  ELSE IF slot.kind = "malformed"
    THEN [ok |-> FALSE, recording |-> None, err |-> <<"Unable to decode">>]
  ELSE IF slot.kind = "Replay"
    THEN [ok |-> TRUE, recording |-> Some(slot.rec), err |-> <<>>]
  ELSE [ok |-> TRUE, recording |-> None, err |-> <<>>]

\* get_recorded_game: Ok(Some(recording)), Ok(None) or Err(message); the
\* message for an envelope of another kind names that kind.
get_recorded_game(slot) ==
  IF slot.kind = "empty" THEN [ok |-> TRUE, recording |-> None, err |-> <<>>]
  ELSE IF slot.kind = "malformed"
    THEN [ok |-> FALSE, recording |-> None, err |-> <<"Unable to decode">>]
  ELSE IF slot.kind = "Replay"
    THEN [ok |-> TRUE, recording |-> Some(slot.rec), err |-> <<>>]
  ELSE [ok |-> FALSE, recording |-> None,
        err |-> <<"Expected a Replay but found a", slot.kind>>]

replay_cell_empty(game_as_player) == None

\* game: Arc::new(Mutex::new(Some(game_as_player)))
replay_cell(game_as_player) == Some(game_as_player)

\* make_game: the wrapper it returns ("running"), an Err ("failed"), or the
\* exception of the unwrap_throw on the construction-time seek ("thrown").
make_game(link, slot, t_now) ==
  LET no_wrapper == [game |-> None, ps |-> None, pft |-> 0]
  IN
  IF ~link.recording THEN
    [phase |-> "running", game |-> None, ps |-> None, pft |-> t_now, ret |-> "Ok", err |-> <<>>]
  ELSE
    LET got == get_recorded_game(slot) IN
    IF ~got.ok THEN [phase |-> "failed", ret |-> "Err", err |-> got.err] @@ no_wrapper
    ELSE IF ~got.recording.some
      THEN [phase |-> "failed", ret |-> "Err", err |-> <<"No saved game found">>]
             @@ no_wrapper
    ELSE
      LET game_as_player == [game_new EXCEPT !.status = "Lobby"]
          server == ps_new(got.recording.v)
          offset == read_time_offset_from_url(link)
      IN
      IF ~offset.some THEN
        [phase |-> "running", game |-> replay_cell(game_as_player), ps |-> Some(server),
         pft |-> t_now, ret |-> "Ok", err |-> <<>>]
      ELSE
        LET cell == replay_cell(game_as_player)
            r == IF cell.some THEN skip_to(server, offset.v, cell.v)
                 ELSE [ok |-> FALSE, ps |-> server, game |-> game_as_player]
        IN
        IF ~r.ok THEN [phase |-> "thrown", ret |-> "Throw", err |-> <<>>] @@ no_wrapper
        ELSE [phase |-> "running", game |-> Some(r.game),
              ps |-> Some(toggle_pause(r.ps)), pft |-> t_now, ret |-> "Ok", err |-> <<>>]

\* ------------------------------------------------ the network listener
\* create_websocket_and_listen: the messages the listener applies to the
\* shared cell of a live session.
NetEvents == {"open", "welcome", "start", "end"}

listener(g_opt, ev) ==
  IF ev = "open" THEN (IF g_opt.some THEN g_opt ELSE Some(game_new))
  ELSE IF ~g_opt.some THEN g_opt
  ELSE IF ev = "welcome" /\ g_opt.v.status = "Connecting"
    THEN Some([g_opt.v EXCEPT !.status = "Lobby"])
  ELSE IF ev = "start" /\ g_opt.v.status = "Lobby"
    THEN Some([g_opt.v EXCEPT !.status = "Playing"])
  ELSE IF ev = "end" /\ g_opt.v.status = "Playing"
    THEN Some([g_opt.v EXCEPT !.status = "Finished"])
  ELSE g_opt

\* ---------------------------------------------------------- the machine
NoCall == [op |-> "none", ret |-> "none", cmd |-> "none", calls |-> <<>>, err |-> <<>>]

\* How far a press, release, press of pause_playback, delivered by successive
\* set_inputs calls with every other signal kept as it was and no frame in
\* between, has come; paused0 and time0 are the pause flag and the cursor
\* before the first press.
NoTaps == [stage |-> 0, paused0 |-> FALSE, time0 |-> 0]
PauseTaps(input) ==
  IF ~playback_server.some THEN NoTaps
  ELSE IF pause_taps.stage = 2 /\ input = [delivered EXCEPT !.pause_playback = TRUE]
    THEN [pause_taps EXCEPT !.stage = 3]
  ELSE IF pause_taps.stage = 1 /\ input = [delivered EXCEPT !.pause_playback = FALSE]
    THEN [pause_taps EXCEPT !.stage = 2]
  ELSE IF ~delivered.pause_playback
          /\ input = [delivered EXCEPT !.pause_playback = TRUE]
    THEN [stage |-> 1, paused0 |-> paused(playback_server.v),
          time0 |-> current_time(playback_server.v)]
  ELSE NoTaps

\* The instant of the last transition to unpaused, given a call's effect.
ResumedAt(ps_before, ps_after) ==
  IF ps_before.some /\ ps_after.some /\ paused(ps_before.v) /\ ~paused(ps_after.v)
    THEN now ELSE resumed_at

Init ==
  /\ phase = "new"
  /\ game = None
  /\ playback_server = None
  /\ previous_frame_time = 0
  /\ now = 0
  /\ href \in StartLinks
  /\ storage \in Slots
  /\ lock = "free"
  /\ pc = [p \in Sources |-> "idle"]
  /\ delivered = NoInput
  /\ resumed_at = 0
  /\ pause_taps = NoTaps
  /\ last = NoCall

\* make_game(name), called once by the page; slot is what it reads from
\* localStorage.
MakeGame(slot) ==
  /\ phase = "new"
  /\ slot = storage
  /\ LET r == make_game(href, slot, now) IN
     /\ phase' = r.phase
     /\ game' = r.game
     /\ playback_server' = r.ps
     /\ previous_frame_time' = r.pft
     /\ last' = [NoCall EXCEPT !.op = "make_game", !.ret = r.ret, !.err = r.err]
  /\ UNCHANGED <<now, href, storage, lock, pc, delivered, resumed_at, pause_taps>>

\* Wall time passes.
Tick ==
  /\ phase = "running"
  /\ now < MaxNow
  /\ now' = now + 1
  /\ UNCHANGED <<phase, game, playback_server, previous_frame_time, href, storage,
                 lock, pc, delivered, resumed_at, pause_taps, last>>

\* self.game.lock(): a call source enters its handler and takes the Mutex;
\* the call that is now running has no result yet.
Lock(p) ==
  /\ phase = "running"
  /\ pc[p] = "idle"
  /\ p = "listener" => ~playback_server.some
  /\ lock = "free"
  /\ lock' = p
  /\ pc' = [pc EXCEPT ![p] = "in"]
  /\ last' = NoCall
  /\ UNCHANGED <<phase, game, playback_server, previous_frame_time, now, href,
                 storage, delivered, resumed_at, pause_taps>>

\* The body of set_inputs; the guard is dropped as the call returns.
SetInputs(input) ==
  /\ pc["set_inputs"] = "in"
  /\ LET r == set_inputs(game, playback_server, previous_frame_time, now, input) IN
     /\ game' = r.game
     /\ playback_server' = r.ps
     /\ previous_frame_time' = r.pft
     /\ resumed_at' = ResumedAt(playback_server, r.ps)
     /\ last' = [op |-> "set_inputs", ret |-> r.ret, cmd |-> r.cmd, calls |-> r.calls,
               err |-> <<>>]
  /\ delivered' = input
  /\ pause_taps' = PauseTaps(input)
  /\ lock' = "free"
  /\ pc' = [pc EXCEPT !["set_inputs"] = "idle"]
  /\ UNCHANGED <<phase, now, href, storage>>

\* The body of simulate; the guard is dropped as the call returns, and is
\* not when the call is left by a JS exception.
Simulate(fail) ==
  /\ pc["simulate"] = "in"
  /\ LET r == simulate(game, playback_server, previous_frame_time, now, href, fail) IN
     /\ game' = r.game
     /\ playback_server' = r.ps
     /\ previous_frame_time' = r.pft
     /\ href' = r.href
     /\ resumed_at' = ResumedAt(playback_server, r.ps)
     /\ last' = [op |-> "simulate", ret |-> r.ret, cmd |-> "none", calls |-> r.calls,
               err |-> <<>>]
     /\ lock' = IF r.held THEN lock ELSE "free"
  /\ pause_taps' = NoTaps
  /\ pc' = [pc EXCEPT !["simulate"] = "idle"]
  /\ UNCHANGED <<phase, now, storage, delivered>>

\* The listener applies a network message to the cell under the lock.
Listener(ev) ==
  /\ pc["listener"] = "in"
  /\ game' = listener(game, ev)
  /\ last' = [NoCall EXCEPT !.op = "listener"]
  /\ lock' = "free"
  /\ pc' = [pc EXCEPT !["listener"] = "idle"]
  /\ UNCHANGED <<phase, playback_server, previous_frame_time, now, href, storage,
                 delivered, resumed_at, pause_taps>>

Next ==
  \/ \E slot \in Slots : MakeGame(slot)
  \/ Tick
  \/ \E p \in Sources : Lock(p)
  \/ \E input \in Inputs : SetInputs(input)
  \/ \E fail \in LinkFailures : Simulate(fail)
  \/ \E ev \in NetEvents : Listener(ev)

Spec == Init /\ [][Next]_vars

\* ------------------------------------------------------- vocabulary
\* A step that completes a set_inputs / simulate call.
SetInputsStep == pc["set_inputs"] = "in" /\ pc'["set_inputs"] = "idle"
SimulateStep == pc["simulate"] = "in" /\ pc'["simulate"] = "idle"

Playback == playback_server.some
Cursor == current_time(playback_server.v)
Paused == paused(playback_server.v)

Applied(call) == \E i \in 1..Len(last.calls) : last.calls[i] = call
Times(call) == Cardinality({ i \in 1..Len(last.calls) : last.calls[i] = call })

Min(a, b) == IF a < b THEN a ELSE b
Max(a, b) == IF a > b THEN a ELSE b

\* The link text that encodes a cursor.
LinkFor(t) == [recording |-> TRUE, time |-> Some(TimeText(as_secs(t), 0))]

\* ------------------------------------------------------------------ C1
\* C1 (as stated): in one simulate call the game is advanced by at most one
\* path: never by the Playback Controller's simulate and the Live Session's
\* simulate together.
C1_OnePathPerFrame ==
  last.op = "simulate" => ~(Applied("playback.simulate") /\ Applied("game.simulate"))

\* C1 (amended): in one simulate call each path is applied at most once; a
\* live session applies only the Live Session's simulate; a playback session
\* applies nothing while paused and otherwise the Playback Controller's
\* simulate first and the Live Session's simulate only after it succeeded.
C1_PathsPerFrame ==
  last.op = "simulate" =>
    /\ Times("playback.simulate") + Times("playback.simulate:Err") <= 1
    /\ Times("game.simulate") <= 1
    /\ ~Playback => ~Applied("playback.simulate") /\ ~Applied("playback.simulate:Err")
    /\ Playback /\ Paused => last.calls = <<>>
    /\ Playback /\ Applied("game.simulate") =>
         last.calls = <<"playback.simulate", "write_url", "game.simulate">>

C1_Witness ==
  /\ last.op = "simulate"
  /\ Playback
  /\ Applied("playback.simulate")
  /\ Applied("game.simulate")
  /\ game.v.frames = 1

\* ------------------------------------------------------------------ C2
Mode ==
  IF playback_server.some THEN "PlaybackActive"
  ELSE IF ~game.some \/ game.v.status = "Connecting" THEN "Connecting"
  ELSE "LiveActive"

\* C2: once make_game has returned, a session built from a replay link has a
\* Playback Controller and a game instance, a live session has no Playback
\* Controller, and the only change of mode is Connecting -> LiveActive.
C2_ModeFixed ==
  [][ /\ phase' = "running" =>
           /\ href'.recording <=> playback_server'.some
           /\ playback_server'.some => game'.some
      /\ phase = "running" /\ Mode' # Mode =>
           Mode = "Connecting" /\ Mode' = "LiveActive" ]_vars

C2_Witness ==
  /\ phase = "running"
  /\ Mode = "PlaybackActive"
  /\ last.op = "set_inputs"
  /\ last.cmd = "skip_back"
  /\ now > 0

\* ------------------------------------------------------------------ C3
\* C3: at most one call source is inside its critical section, the source
\* inside holds the lock, and no source that has left its call still holds it.
C3_LockDiscipline ==
  /\ Cardinality({ p \in Sources : pc[p] = "in" }) <= 1
  /\ \A p \in Sources : pc[p] = "in" => lock = p
  /\ \A p \in Sources : pc[p] = "idle" => lock # p

\* ------------------------------------------------------------------ C4
\* C4: a simulate call made while playback is paused leaves the cursor, the
\* pause flag and the game instance as they were.
C4_PausedFrameChangesNothing ==
  [][ SimulateStep /\ Playback /\ Paused =>
        playback_server' = playback_server /\ game' = game ]_vars

C4_Witness ==
  /\ last.op = "simulate"
  /\ Playback
  /\ Paused
  /\ game.v.status = "Playing"
  /\ previous_frame_time > 0

\* ------------------------------------------------------------------ C5
\* C5: a set_inputs call issues a seek only on the snapshot where the seek
\* signal went from false (in the snapshot delivered before) to true; stated
\* of the calls that return Ok.
C5_SeekOnlyOnRisingEdge ==
  [][ SetInputsStep /\ Playback /\ last'.ret = "Ok" =>
        /\ last'.cmd = "skip_back" => ~delivered.skip_back /\ delivered'.skip_back
        /\ last'.cmd = "skip_forward" =>
             ~delivered.skip_forward /\ delivered'.skip_forward ]_vars

\* ------------------------------------------------------------------ C6
SeekFailed(l) == l.cmd \in {"skip_back", "skip_forward"} /\ l.ret = "Err"

\* C6: a seek-back that succeeds leaves the cursor at max(0, t - 5s) and a
\* seek-forward that succeeds at min(duration, t + 5s), t the cursor before.
C6_SeekTargets ==
  [][ SetInputsStep /\ Playback /\ ~SeekFailed(last') =>
        /\ last'.cmd = "skip_back" => Cursor' = Max(0, Cursor - SkipStep)
        /\ last'.cmd = "skip_forward" =>
             Cursor' = Min(duration(playback_server.v), Cursor + SkipStep) ]_vars

C6_Witness ==
  /\ last.op = "set_inputs"
  /\ last.cmd = "skip_back"
  /\ last.ret = "Ok"
  /\ Playback
  /\ Cursor = 0
  /\ href.time = Some(TimeText(1, 1))

\* ------------------------------------------------------------------ C7
\* C7: in a playback session 0 <= current_time <= duration.
C7_CursorInTimeline ==
  Playback => 0 <= Cursor /\ Cursor <= duration(playback_server.v)

C7_Witness ==
  /\ phase = "running"
  /\ last.op = "make_game"
  /\ Playback
  /\ href.time.some
  /\ from_secs_f64(href.time.v) > duration(playback_server.v)
  /\ Cursor = duration(playback_server.v)

C9_LinkFollowsCursor ==
  [][ (SetInputsStep \/ SimulateStep) /\ Playback /\ Cursor' # Cursor
        /\ last'.ret # "Throw" => href' = LinkFor(Cursor') ]_vars

\* ----------------------------------------------------------------- C10
\* C10: a failure of the link synchronisation never fails a frame: simulate
\* returns a result.
C10_LinkFailureNeverFailsFrame ==
  last.op = "simulate" => last.ret # "Throw"

\* ----------------------------------------------------------------- C11
\* C11: a PlaybackError is returned to the caller as an error result, also by
\* the construction-time seek, and the source that got one does not keep the
\* lock.
C11_PlaybackErrorsReturned ==
  /\ phase # "thrown"
  /\ last.ret = "Err" => lock # last.op

\* ----------------------------------------------------------------- C12
\* The command the rising edges of the delivered snapshots call for.
DeliveredEdge(sig) == ~delivered[sig] /\ delivered'[sig]
DeliveredCommand ==
  IF DeliveredEdge("skip_back") THEN "skip_back"
  ELSE IF DeliveredEdge("skip_forward") THEN "skip_forward"
  ELSE IF DeliveredEdge("pause_playback") THEN "toggle_pause"
  ELSE "none"

\* C12: in playback of a finished game, a snapshot in which a playback signal
\* rises (false in the snapshot delivered before, true now) triggers its
\* command.
C12_CommandsActiveWhenFinished ==
  [][ SetInputsStep /\ Playback /\ finished(game.v.status)
        /\ DeliveredCommand # "none" => last'.cmd = DeliveredCommand ]_vars

\* ----------------------------------------------------------------- C13
\* C13: make_game on a replay link whose "latest game" slot is empty, not
\* decodable or not a Replay returns an error, for another kind one naming
\* that kind, and builds no Playback Controller and no game instance; a
\* Playback Controller only ever exists for a Replay slot.
C13_ReplayOnlyFromReplay ==
  /\ Playback => storage.kind = "Replay"
  /\ phase # "new" /\ href.recording /\ storage.kind # "Replay" =>
       /\ phase = "failed"
       /\ ~playback_server.some /\ ~game.some
       /\ last.op = "make_game" /\ last.ret = "Err"
       /\ storage.kind = "empty" => last.err = <<"No saved game found">>
       /\ storage.kind \notin {"empty", "malformed"} =>
            last.err = <<"Expected a Replay but found a", storage.kind>>

C13_Witness ==
  /\ phase = "failed"
  /\ storage.kind = "Welcome"
  /\ last.err = <<"Expected a Replay but found a", "Welcome">>

C15_PausedFrameReturnsFalse ==
  [][ SimulateStep /\ Playback /\ Paused =>
        last'.ret = "Ok(false)" /\ last'.calls = <<>> ]_vars

\* C15, amended: a simulate call made while playback is paused returns
\* Ok(true) and does no further work; the link stays as it was.
C15_PausedFrameReturnsTrue ==
  [][ SimulateStep /\ Playback /\ Paused =>
        last'.ret = "Ok(true)" /\ last'.calls = <<>> /\ href' = href ]_vars

\* A paused frame has returned while the not paused one would have had work
\* to do: time has passed since the frame before and the link is stale.
C15_Witness ==
  /\ last.op = "simulate" /\ last.ret = "Ok(true)" /\ last.calls = <<>>
  /\ Playback /\ Paused
  /\ now > 0
  /\ href # LinkFor(Cursor)

\* ----------------------------------------------------------------- C16
\* C16: every simulate call that returns leaves previous_frame_time at the
\* instant of the call, also when the frame is a no-op (no game instance yet,
\* status Connecting, or paused).
C16_BaselineAlwaysUpdated ==
  [][ SimulateStep /\ last'.ret # "Throw" => previous_frame_time' = now ]_vars

\* ----------------------------------------------------------------- C17
\* C17: while the session is connecting (no game instance yet, or the status
\* is Connecting) neither call changes the game: set_inputs with no instance
\* returns Ok and calls nothing, and simulate returns Ok(false) without
\* calling the game's simulate.
C17_ConnectingCallsAreNoOps ==
  [][ Mode = "Connecting" /\ (SetInputsStep \/ SimulateStep) =>
        /\ game' = game
        /\ SetInputsStep /\ ~game.some => last'.ret = "Ok" /\ last'.calls = <<>>
        /\ SimulateStep =>
             /\ last'.ret = "Ok(false)"
             /\ \A i \in 1..Len(last'.calls) : last'.calls[i] # "game.simulate" ]_vars

\* A frame has returned for an instance that exists and is still Connecting,
\* with wall time to simulate.
C17_Witness ==
  /\ last.op = "simulate" /\ last.ret = "Ok(false)"
  /\ game.some /\ game.v.status = "Connecting"
  /\ previous_frame_time > 0

\* ----------------------------------------------------------------- C18
Forwarded(l) == \E i \in 1..Len(l.calls) : l.calls[i] = "take_input"

\* C18 as stated: a set_inputs call made while the game status is finished
\* returns Ok, does not call take_input and leaves the game's stored inputs
\* as they were.
C18_NoForwardOnceFinished ==
  [][ SetInputsStep /\ game.some /\ finished(game.v.status) =>
        /\ last'.ret = "Ok"
        /\ ~Forwarded(last')
        /\ inputs(game'.v) = inputs(game.v) ]_vars

\* C18, amended: a set_inputs call after whose playback command (if any) the
\* game status is finished returns Ok, does not call take_input and leaves
\* the stored inputs as they were; in a live session that is every call made
\* while the status is finished.
C18_NoForwardWhenFinishedAfterCommand ==
  [][ SetInputsStep /\ game.some =>
        /\ finished(game'.v.status) =>
             /\ last'.ret = "Ok"
             /\ ~Forwarded(last')
             /\ inputs(game'.v) = inputs(game.v)
        /\ ~Playback /\ finished(game.v.status) => finished(game'.v.status) ]_vars

\* A snapshot with a seek-forward edge and a continuous change was delivered
\* to a finished playback game: the seek ran, nothing was forwarded.
C18_Witness ==
  /\ last.op = "set_inputs" /\ last.ret = "Ok"
  /\ last.calls = <<"skip_to">>
  /\ Playback /\ finished(game.v.status)
  /\ delivered # inputs(game.v)

\* ----------------------------------------------------------------- C19
\* C19: the cursor of a playback session never goes down except in a
\* set_inputs call that delivers a rising skip_back and runs the seek back;
\* simulate, toggle_pause and the seek forward leave it where it was or move
\* it up.
C19_CursorOnlyLoweredBySeekBack ==
  [][ Playback /\ Playback' /\ Cursor' < Cursor =>
        /\ SetInputsStep
        /\ last'.cmd = "skip_back"
        /\ DeliveredEdge("skip_back") ]_vars

\* A seek forward has moved the cursor up to inside the timeline.
C19_Witness ==
  /\ last.op = "set_inputs" /\ last.cmd = "skip_forward" /\ last.ret = "Ok"
  /\ Playback
  /\ Cursor >= SkipStep /\ Cursor < duration(playback_server.v)

\* ----------------------------------------------------------------- C20
Commands(l) ==
  Cardinality({ i \in 1..Len(l.calls) : l.calls[i] \in {"skip_to", "toggle_pause"} })

\* C20: a set_inputs call in playback runs at most one playback command, the
\* one of the highest-priority signal that rises in the snapshot (skip_back,
\* then skip_forward, then pause_playback); a signal that was already held in
\* the snapshot delivered before runs nothing. Stated of the calls that
\* return Ok.
C20_OneCommandByPriority ==
  [][ SetInputsStep /\ Playback /\ last'.ret = "Ok" =>
        /\ Commands(last') <= 1
        /\ last'.cmd = "skip_back" => DeliveredEdge("skip_back")
        /\ last'.cmd = "skip_forward" =>
             DeliveredEdge("skip_forward") /\ ~DeliveredEdge("skip_back")
        /\ last'.cmd = "toggle_pause" =>
             /\ DeliveredEdge("pause_playback")
             /\ ~DeliveredEdge("skip_back") /\ ~DeliveredEdge("skip_forward") ]_vars

====
